---- MODULE Spec2Model ----
(***************************************************************************)
(* Verification model of the plasma-nm connection editor widgets:          *)
(*   - WireGuardSettingWidget (src/editor/main.cpp)                        *)
(*   - BridgeWidget           (src/libs/editor/settings/bridgewidget.cpp)  *)
(*   - NetworkModel           (src/active/setting/networkmodel.cpp)        *)
(* Text values are sequences of one-character strings, so that QString     *)
(* operations (split, contains, remove, trimmed) are computed, not assumed.*)
(***************************************************************************)
EXTENDS Integers, Sequences, FiniteSets, TLC

VARIABLES
    \* ---- WireGuardSettingWidget ----
    wgPc,          \* "new" (before the constructor), "ready", "crashed"
    wgStored,      \* d->setting->data(): NMStringMap, key -> text
    wgField,       \* the line edits of d->ui: field name -> text
    wgFlag,        \* the five validity flags of Private
    wgEdited,      \* TRUE once the user has edited a field after loadConfig
    wgRet,         \* what the last operation returned
    \* ---- BridgeWidget ----
    brPc,          \* "new" (before the constructor), "ready"
    brSetting,     \* the bridge setting handed to the constructor
    brMasterId,    \* m_id, the master connection's name (may be empty)
    brForm,        \* ifaceName, agingTime, stpGroup and the four STP spin boxes
    brBridges,     \* m_ui->bridges: the slave list, items <<label, uuid>>
    brCurrent,     \* row of the list's current item, 0 when there is none
    brDialog,      \* the modal ConnectionEditorDialog that is open, if any
    brWatchers,    \* QDBusPendingCallWatchers of addConnection calls
    brHooks,       \* uuids whose updated signal is connected to populateBridges
    brRet,         \* what the last operation was or returned, until the next event
    brEdited,      \* TRUE once the user has changed the form after loadConfig
    \* ---- NetworkManager service, as the BridgeWidget sees it ----
    nmStore,       \* listConnections()
    nmUpdateCalls, \* Connection::update calls not yet carried out
    nmRemoveCalls, \* Connection::remove calls not yet carried out
    nmUuids,       \* number of connection uuids made so far
    \* ---- NetworkModel ----
    netPc,         \* "loop" (constructor, in foreach), "vpn", "done"
    netDevices,    \* NetworkManager::networkInterfaces(): device types in order
    netIdx,        \* position of foreach in netDevices
    m_networkItems,
    netItem,       \* the constructor's local item
    nonVirtualDevice,
    netRet,        \* what the last operation returned
    \* ---- main() ----
    mainPc,        \* "start", "editor" (ConnectionEditor made), "opened", "exec"
    mainArgs,      \* KCmdLineArgs::parsedArgs(): the positional arguments
    editorCalls    \* the calls main() has made on the editor, in order

wgVars == <<wgPc, wgStored, wgField, wgFlag, wgEdited, wgRet>>

brVars == <<brPc, brSetting, brMasterId, brForm, brBridges, brCurrent, brDialog,
            brWatchers, brHooks, brRet, brEdited, nmStore, nmUpdateCalls, nmRemoveCalls, nmUuids>>

netVars == <<netPc, netDevices, netIdx, m_networkItems, netItem, nonVirtualDevice, netRet>>

mainVars == <<mainPc, mainArgs, editorCalls>>

vars == <<wgVars, brVars, netVars, mainVars>>

-----------------------------------------------------------------------------
(* QString operations used by the widgets *)

Chars(s) == [i \in 1..Len(s) |-> SubSeq(s, i, i)]

Empty == <<>>

\* QString::indexOf(sub): first position of sub in s, 0 when absent
IndexOf(s, sub) ==
    LET hits == {i \in 1..(Len(s) - Len(sub) + 1) : SubSeq(s, i, i + Len(sub) - 1) = sub}
    IN  IF hits = {} THEN 0 ELSE CHOOSE i \in hits : \A j \in hits : i <= j

\* QString::contains(sub)
Contains(s, sub) == IndexOf(s, sub) # 0

\* QString::split(sep), KeepEmptyParts: never an empty list
RECURSIVE Split(_, _)
Split(s, sep) ==
    LET i == IndexOf(s, sep)
    IN  IF i = 0 THEN <<s>>
        ELSE <<SubSeq(s, 1, i - 1)>> \o Split(SubSeq(s, i + Len(sep), Len(s)), sep)

RECURSIVE Concat(_)
Concat(parts) == IF parts = <<>> THEN <<>> ELSE Head(parts) \o Concat(Tail(parts))

\* QString::remove(sub): every occurrence of sub taken out
Remove(s, sub) == Concat(Split(s, sub))

IsSpace(c) == c \in {" ", "\t"}

\* QString::trimmed(): whitespace taken off both ends
RECURSIVE Trimmed(_)
Trimmed(s) ==
    IF s = <<>> THEN s
    ELSE IF IsSpace(Head(s)) THEN Trimmed(Tail(s))
    ELSE IF IsSpace(s[Len(s)]) THEN Trimmed(SubSeq(s, 1, Len(s) - 1))
    ELSE s

-----------------------------------------------------------------------------
(* NMStringMap (QMap<QString, QString>) *)

\* const QMap::operator[]: the value, or a default-constructed (empty) QString
Lookup(m, k) == IF k \in DOMAIN m THEN m[k] ELSE Empty

MapInsert(m, k, v) == [x \in DOMAIN m \cup {k} |-> IF x = k THEN v ELSE m[x]]

MapRemove(m, k) == [x \in DOMAIN m \ {k} |-> m[x]]

\* WireGuardSettingWidget::setProperty
setProperty(data, key, value) ==
    IF value # Empty THEN MapInsert(data, key, value) ELSE MapRemove(data, key)

-----------------------------------------------------------------------------
(* Validators.  SimpleIpV4AddressValidator, SimpleIpV6AddressValidator,     *)
(* SimpleIpListValidator and WireGuardKeyValidator are classes of this      *)
(* repository whose sources are not among the files modelled; they are      *)
(* modelled as "the text is a syntactically acceptable instance of the      *)
(* format" (QValidator::Acceptable), which the empty text never is.         *)

Digit == {"0", "1", "2", "3", "4", "5", "6", "7", "8", "9"}

HexDigit == Digit \cup {"a", "b", "c", "d", "e", "f", "A", "B", "C", "D", "E", "F"}

Letter == {"a", "b", "c", "d", "e", "f", "g", "h", "i", "j", "k", "l", "m",
           "n", "o", "p", "q", "r", "s", "t", "u", "v", "w", "x", "y", "z",
           "A", "B", "C", "D", "E", "F", "G", "H", "I", "J", "K", "L", "M",
           "N", "O", "P", "Q", "R", "S", "T", "U", "V", "W", "X", "Y", "Z"}

AllIn(s, set) == \A i \in 1..Len(s) : s[i] \in set

DigitVal(c) == CHOOSE n \in 0..9 : ToString(n) = c

RECURSIVE NumVal(_)
NumVal(s) == IF s = <<>> THEN 0 ELSE 10 * NumVal(SubSeq(s, 1, Len(s) - 1)) + DigitVal(s[Len(s)])

IsNumber(s, maxLen, maxVal) ==
    /\ Len(s) \in 1..maxLen
    /\ AllIn(s, Digit)
    /\ NumVal(s) <= maxVal

\* dotted quad, each tetrad 0..255
IsIp4(s) ==
    LET t == Split(s, <<".">>)
    IN  Len(t) = 4 /\ \A i \in 1..4 : IsNumber(t[i], 3, 255)

\* groups of up to four hex digits separated by ':', "::" at most once and
\* standing for the groups left out
IsIp6(s) ==
    LET g == Split(s, <<":">>)
        n == Len(g)
        inner == {i \in 2..(n - 1) : g[i] = <<>>}
    IN  /\ n \in 3..8
        /\ \A i \in 1..n : Len(g[i]) <= 4 /\ AllIn(g[i], HexDigit)
        /\ Cardinality(inner) <= 1
        /\ g[1] = <<>> => g[2] = <<>>
        /\ g[n] = <<>> => g[n - 1] = <<>>
        /\ inner = {} => n = 8

\* SimpleIpV4AddressValidator, AddressStyle::Base
Ip4Acceptable(s) == IsIp4(s)

\* SimpleIpV4AddressValidator, AddressStyle::WithCidr
Ip4CidrAcceptable(s) ==
    LET p == Split(s, <<"/">>)
    IN  Len(p) = 2 /\ IsIp4(p[1]) /\ IsNumber(p[2], 2, 32)

\* SimpleIpV6AddressValidator, AddressStyle::Base
Ip6Acceptable(s) == IsIp6(s)

\* SimpleIpV6AddressValidator, AddressStyle::WithCidr
Ip6CidrAcceptable(s) ==
    LET p == Split(s, <<"/">>)
    IN  Len(p) = 2 /\ IsIp6(p[1]) /\ IsNumber(p[2], 3, 128)

\* SimpleIpListValidator(WithCidr, Both): comma separated, each an address with CIDR
IpListAcceptable(s) ==
    LET items == Split(s, <<",">>)
    IN  \A i \in 1..Len(items) :
            Ip4CidrAcceptable(Trimmed(items[i])) \/ Ip6CidrAcceptable(Trimmed(items[i]))

KeyLen == 44

Base64Char == Letter \cup Digit \cup {"+", "/"}

\* WireGuardKeyValidator: a base64 encoded 32 byte key
KeyAcceptable(s) ==
    /\ Len(s) = KeyLen
    /\ AllIn(SubSeq(s, 1, KeyLen - 1), Base64Char)
    /\ s[KeyLen] = "="

LabelFirst == Letter \cup Digit

LabelRest == Letter \cup Digit \cup {"-"}

\* the QRegExpValidator of checkEndpointValid (exact match):
\* (?=.{5,254}$)([a-zA-Z0-9][a-zA-Z0-9-]{1,62}\.){1,63}[a-zA-Z]{2,63}
FqdnAcceptable(s) ==
    LET p == Split(s, <<".">>)
        n == Len(p)
    IN  /\ Len(s) \in 5..254
        /\ n \in 2..64
        /\ \A i \in 1..(n - 1) :
              /\ Len(p[i]) \in 2..63
              /\ p[i][1] \in LabelFirst
              /\ AllIn(Tail(p[i]), LabelRest)
        /\ Len(p[n]) \in 2..63
        /\ AllIn(p[n], Letter)

-----------------------------------------------------------------------------
(* WireGuardSettingWidget *)

\* keys of the stored VPN data (nm-wireguard-service.h)
NM_WG_KEY_ADDR_IP4 == "local-ip4"
NM_WG_KEY_ADDR_IP6 == "local-ip6"
NM_WG_KEY_PRIVATE_KEY == "local-private-key"
NM_WG_KEY_PUBLIC_KEY == "peer-public-key"
NM_WG_KEY_ALLOWED_IPS == "peer-allowed-ips"
NM_WG_KEY_ENDPOINT == "peer-endpoint"

\* Private::Private(): the flags before any check has run
InitialFlags ==
    [addressValid |-> FALSE, privateKeyValid |-> FALSE, publicKeyValid |-> FALSE,
     allowedIpsValid |-> FALSE, endpointValid |-> TRUE]

\* setupUi: every line edit starts empty
EmptyForm ==
    [addressIPv4 |-> Empty, addressIPv6 |-> Empty, privateKey |-> Empty,
     publicKey |-> Empty, allowedIPs |-> Empty,
     endpointAddress |-> Empty, endpointPort |-> Empty]

NoReturn == [op |-> "none"]

\* loadConfig: the stored endpoint split into <address, port>
EndpointList(data) ==
    LET storedEndpoint == Lookup(data, NM_WG_KEY_ENDPOINT)
    IN  IF Contains(storedEndpoint, <<"]", ":">>)
        THEN Split(storedEndpoint, <<"]", ":">>)
        ELSE Split(storedEndpoint, <<":">>)

\* loadConfig as it would be if the '[' were left on the address
LoadedFormKeepBracket(data, portText) ==
    [addressIPv4 |-> Lookup(data, NM_WG_KEY_ADDR_IP4),
     addressIPv6 |-> Lookup(data, NM_WG_KEY_ADDR_IP6),
     privateKey |-> Lookup(data, NM_WG_KEY_PRIVATE_KEY),
     publicKey |-> Lookup(data, NM_WG_KEY_PUBLIC_KEY),
     allowedIPs |-> Lookup(data, NM_WG_KEY_ALLOWED_IPS),
     endpointAddress |-> EndpointList(data)[1],
     endpointPort |-> portText]

\* loadConfig: the form after it, given the text endpointList[1] evaluated to
LoadedForm(data, portText) ==
    [addressIPv4 |-> Lookup(data, NM_WG_KEY_ADDR_IP4),
     addressIPv6 |-> Lookup(data, NM_WG_KEY_ADDR_IP6),
     privateKey |-> Lookup(data, NM_WG_KEY_PRIVATE_KEY),
     publicKey |-> Lookup(data, NM_WG_KEY_PUBLIC_KEY),
     allowedIPs |-> Lookup(data, NM_WG_KEY_ALLOWED_IPS),
     endpointAddress |-> Remove(EndpointList(data)[1], <<"[">>),
     endpointPort |-> portText]

\* loadConfig stops at endpointList[1] when the list has one element: the form
\* as it is when that read is made
PartlyLoadedForm(data) == LoadedForm(data, Empty)

\* checkAddressValid as it would be if one acceptable address were enough
checkAddressValidEither(f) ==
    Ip4CidrAcceptable(f.addressIPv4) \/ Ip6CidrAcceptable(f.addressIPv6)

\* checkAddressValid
checkAddressValid(f) ==
    LET ip4valid == Ip4CidrAcceptable(f.addressIPv4)
        ip4present == f.addressIPv4 # Empty
        ip6valid == Ip6CidrAcceptable(f.addressIPv6)
        ip6present == f.addressIPv6 # Empty
    IN  (ip4valid /\ ip6valid) \/ (ip4valid /\ ~ip6present) \/ (~ip4present /\ ip6valid)

\* checkPrivateKeyValid
checkPrivateKeyValid(f) == KeyAcceptable(f.privateKey)

\* checkPublicKeyValid
checkPublicKeyValid(f) == KeyAcceptable(f.publicKey)

\* checkAllowedIpsValid
checkAllowedIpsValid(f) == IpListAcceptable(f.allowedIPs)

\* checkEndpointValid as it would be if the port were not required
checkEndpointValidNoPort(f) ==
    LET addressValue == f.endpointAddress
        addressValid == \/ FqdnAcceptable(addressValue)
                        \/ Ip4Acceptable(addressValue)
                        \/ Ip6Acceptable(addressValue)
        bothEmpty == addressValue = Empty /\ f.endpointPort = Empty
    IN  bothEmpty \/ addressValid

\* checkEndpointValid
checkEndpointValid(f) ==
    LET addressValue == f.endpointAddress
        portString == f.endpointPort
        addressValid == \/ FqdnAcceptable(addressValue)
                        \/ Ip4Acceptable(addressValue)
                        \/ Ip6Acceptable(addressValue)
        bothEmpty == addressValue = Empty /\ portString = Empty
        portValid == portString # Empty
    IN  bothEmpty \/ (addressValid /\ portValid)

\* the five checks the constructor runs after loadConfig
AllChecks(f) ==
    [addressValid |-> checkAddressValid(f),
     privateKeyValid |-> checkPrivateKeyValid(f),
     publicKeyValid |-> checkPublicKeyValid(f),
     allowedIpsValid |-> checkAllowedIpsValid(f),
     endpointValid |-> checkEndpointValid(f)]

\* the textChanged connections of the constructor: the slot a line edit runs
SlotOf(field, flags, f) ==
    CASE field \in {"addressIPv4", "addressIPv6"} ->
            [flags EXCEPT !.addressValid = checkAddressValid(f)]
      [] field = "privateKey" ->
            [flags EXCEPT !.privateKeyValid = checkPrivateKeyValid(f)]
      [] field = "publicKey" ->
            [flags EXCEPT !.publicKeyValid = checkPublicKeyValid(f)]
      [] field = "allowedIPs" ->
            [flags EXCEPT !.allowedIpsValid = checkAllowedIpsValid(f)]
      [] field \in {"endpointAddress", "endpointPort"} ->
            [flags EXCEPT !.endpointValid = checkEndpointValid(f)]

\* isValid as it would be with the optional endpoint left out of the conjunction
isValidWithoutEndpoint(flags) ==
    /\ flags.addressValid
    /\ flags.privateKeyValid
    /\ flags.publicKeyValid
    /\ flags.allowedIpsValid

\* WireGuardSettingWidget::isValid
isValid(flags) ==
    /\ flags.addressValid
    /\ flags.privateKeyValid
    /\ flags.publicKeyValid
    /\ flags.allowedIpsValid
    /\ flags.endpointValid

\* the endpoint value as it would be without the IPv6 brackets
EndpointValueNoBrackets(f) ==
    Trimmed(f.endpointAddress) \o <<":">> \o Trimmed(f.endpointPort)

\* setting(): the endpoint value written when the address field is not empty
EndpointValue(f) ==
    IF Contains(f.endpointAddress, <<":">>)
    THEN <<"[">> \o Trimmed(f.endpointAddress) \o <<"]", ":">> \o Trimmed(f.endpointPort)
    ELSE Trimmed(f.endpointAddress) \o <<":">> \o Trimmed(f.endpointPort)

\* WireGuardSettingWidget::setting: the data map of the returned setting
setting(stored, f) ==
    LET d1 == setProperty(stored, NM_WG_KEY_ADDR_IP4, f.addressIPv4)
        d2 == setProperty(d1, NM_WG_KEY_ADDR_IP6, f.addressIPv6)
        d3 == setProperty(d2, NM_WG_KEY_PRIVATE_KEY, f.privateKey)
        d4 == setProperty(d3, NM_WG_KEY_PUBLIC_KEY, f.publicKey)
        d5 == setProperty(d4, NM_WG_KEY_ALLOWED_IPS, f.allowedIPs)
    IN  IF f.endpointAddress # Empty
        THEN setProperty(d5, NM_WG_KEY_ENDPOINT, EndpointValue(f))
        ELSE d5

-----------------------------------------------------------------------------
(* BridgeWidget *)

\* m_uuid: the master connection's uuid, given to the constructor
m_uuid == "uuid-master"

\* SettingWidget::type() of a BridgeWidget
type == "bridge"

NoDialog == [kind |-> "none"]

NoSetting == [present |-> FALSE]

\* calls to NetworkManager that it has not carried out yet; the user makes
\* the next call when NetworkManager has carried out the one before
Outstanding ==
    Cardinality({w \in brWatchers : w.reply = "pending"})
        + Cardinality(nmUpdateCalls) + Cardinality(nmRemoveCalls)

\* setupUi: the form before loadConfig (spin boxes at the values the .ui file
\* gives them, the STP group checked)
UiDefaults ==
    [ifaceName |-> "", agingTime |-> 300, stp |-> TRUE,
     priority |-> 128, forwardDelay |-> 15, helloTime |-> 2, maxAge |-> 20]

\* setupUi: the range of each spin box
UiRanges ==
    [agingTime |-> <<0, 999999999>>, priority |-> <<0, 999999999>>,
     forwardDelay |-> <<0, 999999999>>, helloTime |-> <<0, 999999999>>,
     maxAge |-> <<0, 999999999>>]

\* QSpinBox::setValue: the value, brought into the box's range
setValue(box, v) ==
    IF v < UiRanges[box][1] THEN UiRanges[box][1]
    ELSE IF v > UiRanges[box][2] THEN UiRanges[box][2]
    ELSE v

\* loadConfig as it would be if the STP spin boxes were loaded only partly
BridgeLoadedFormNoMaxAge(form, bridgeSetting) ==
    LET f1 == [form EXCEPT !.ifaceName = bridgeSetting.interfaceName,
                           !.agingTime = setValue("agingTime", bridgeSetting.agingTime),
                           !.stp = bridgeSetting.stp]
    IN  IF bridgeSetting.stp
        THEN [f1 EXCEPT !.priority = setValue("priority", bridgeSetting.priority),
                        !.forwardDelay = setValue("forwardDelay", bridgeSetting.forwardDelay),
                        !.helloTime = setValue("helloTime", bridgeSetting.helloTime)]
        ELSE f1

\* BridgeWidget::loadConfig
BridgeLoadedForm(form, bridgeSetting) ==
    LET f1 == [form EXCEPT !.ifaceName = bridgeSetting.interfaceName,
                           !.agingTime = setValue("agingTime", bridgeSetting.agingTime),
                           !.stp = bridgeSetting.stp]
    IN  IF bridgeSetting.stp
        THEN [f1 EXCEPT !.priority = setValue("priority", bridgeSetting.priority),
                        !.forwardDelay = setValue("forwardDelay", bridgeSetting.forwardDelay),
                        !.helloTime = setValue("helloTime", bridgeSetting.helloTime),
                        !.maxAge = setValue("maxAge", bridgeSetting.maxAge)]
        ELSE f1

\* BridgeWidget::setting: the properties set on the returned BridgeSetting
BridgeSettingOf(form) ==
    LET base == [k \in {"interfaceName", "agingTime", "stp"} |->
                    CASE k = "interfaceName" -> form.ifaceName
                      [] k = "agingTime" -> form.agingTime
                      [] k = "stp" -> form.stp]
        stpPart == [k \in {"priority", "forwardDelay", "helloTime", "maxAge"} |-> form[k]]
    IN  IF form.stp THEN base @@ stpPart ELSE base

\* the list item populateBridges and bridgeAddComplete make for a connection:
\* label "<name> (<type>)", uuid in Qt::UserRole
SlaveItem(connection) ==
    [label |-> <<connection.name, connection.connectionType>>, uuid |-> connection.uuid]

\* populateBridges as it would be if only the by-uuid match were tried
isSlaveByUuidOnly(connection, id) == connection.master = m_uuid

\* populateBridges: isSlave
isSlave(connection, id) ==
    \/ connection.master = m_uuid
    \/ id # "" /\ connection.master = id

\* populateBridges: the loop over listConnections(), after clear()
RECURSIVE populateLoop(_, _, _)
populateLoop(connections, id, list) ==
    IF connections = <<>> THEN list
    ELSE LET connection == Head(connections)
         IN  populateLoop(Tail(connections), id,
                IF isSlave(connection, id) /\ connection.slaveType = type
                THEN Append(list, SlaveItem(connection))
                ELSE list)

\* BridgeWidget::populateBridges: clear(), then the loop
populateBridges(list, connections, id) == populateLoop(connections, id, <<>>)

\* isValid as it would be if the slave list were not looked at
BridgeIsValidNameOnly(form, list) == form.ifaceName # ""

\* BridgeWidget::isValid
BridgeIsValid(form, list) == form.ifaceName # "" /\ Len(list) > 0

\* NetworkManager::findConnectionByUuid / findConnection: position in the
\* store, 0 when there is no such connection
findConnectionByUuid(connections, uuid) ==
    LET hits == {i \in 1..Len(connections) : connections[i].uuid = uuid}
    IN  IF hits = {} THEN 0 ELSE CHOOSE i \in hits : TRUE

RemoveAt(seq, i) == SubSeq(seq, 1, i - 1) \o SubSeq(seq, i + 1, Len(seq))

\* QListWidget: the current row after the current item is deleted (the next
\* item, else the previous one)
CurrentAfterDelete(list, row) ==
    IF row <= Len(list) - 1 THEN row ELSE row - 1

-----------------------------------------------------------------------------
(* Inputs of the WireGuard widget: stored configurations and typed texts *)

GoodIp4Cidr == Chars("10.0.0.2/24")
BadIp4Cidr == Chars("10.0.0.2")
GoodIp6Cidr == Chars("fd00::2/64")
BadIp6Cidr == Chars("fd00::2")
GoodKey == [i \in 1..43 |-> "A"] \o <<"=">>
BadKey == Chars("AAAA=")
GoodAllowedIps == Chars("0.0.0.0/0, ::/0")
BadAllowedIps == Chars("0.0.0.0")
PortText == Chars("51820")

\* well-formed stored endpoints, with the address and the port each is made of
WellFormedEndpoints ==
    {[text |-> Chars("192.0.2.1:51820"), address |-> Chars("192.0.2.1"), port |-> PortText],
     [text |-> Chars("vpn.example.org:51820"), address |-> Chars("vpn.example.org"), port |-> PortText],
     [text |-> Chars("[2001:db8::1]:51820"), address |-> Chars("2001:db8::1"), port |-> PortText]}

\* other stored endpoints: no port separator; whitespace around the parts
OtherEndpoints == {Chars("vpn.example.org"), Chars(" vpn.example.org : 51820 ")}

StoredEndpoints == {e.text : e \in WellFormedEndpoints} \cup OtherEndpoints

\* stored configurations without their endpoint
StoredBases ==
    {<<>>,
     (NM_WG_KEY_ADDR_IP4 :> GoodIp4Cidr) @@ (NM_WG_KEY_PRIVATE_KEY :> GoodKey)
        @@ (NM_WG_KEY_PUBLIC_KEY :> GoodKey) @@ (NM_WG_KEY_ALLOWED_IPS :> GoodAllowedIps),
     (NM_WG_KEY_ADDR_IP6 :> GoodIp6Cidr) @@ (NM_WG_KEY_PRIVATE_KEY :> GoodKey)
        @@ (NM_WG_KEY_PUBLIC_KEY :> BadKey)}

StoredConfigs ==
    StoredBases \cup {MapInsert(b, NM_WG_KEY_ENDPOINT, e) : b \in StoredBases, e \in StoredEndpoints}

\* texts a user may leave in each line edit
TypedTexts ==
    [addressIPv4 |-> {Empty, GoodIp4Cidr, BadIp4Cidr},
     addressIPv6 |-> {Empty, GoodIp6Cidr, BadIp6Cidr},
     privateKey |-> {Empty, GoodKey},
     publicKey |-> {GoodKey, BadKey},
     allowedIPs |-> {GoodAllowedIps, BadAllowedIps},
     endpointAddress |-> {Empty, Chars("192.0.2.1"), Chars("vpn.example.org"),
                          Chars("2001:db8::1"), Chars(" 2001:db8::1 "), Chars("vpn")},
     endpointPort |-> {Empty, PortText}]

\* what reading past the end of endpointList may evaluate to
GarbageTexts == {Empty, Chars("?")}

-----------------------------------------------------------------------------
(* Operations of the WireGuard widget *)

\* the widgets that a specification does not exercise do not exist
WGIdle ==
    /\ wgPc = "off"
    /\ wgStored = <<>>
    /\ wgField = EmptyForm
    /\ wgFlag = InitialFlags
    /\ wgEdited = FALSE
    /\ wgRet = NoReturn

BrIdle ==
    /\ brPc = "off"
    /\ brSetting = NoReturn
    /\ brMasterId = Empty
    /\ brForm = <<>>
    /\ brBridges = <<>>
    /\ brCurrent = 0
    /\ brDialog = NoReturn
    /\ brWatchers = {}
    /\ brHooks = {}
    /\ brRet = NoReturn
    /\ brEdited = FALSE
    /\ nmStore = <<>>
    /\ nmUpdateCalls = {}
    /\ nmRemoveCalls = {}
    /\ nmUuids = 0

NetIdle ==
    /\ netPc = "off"
    /\ netDevices = <<>>
    /\ netIdx = 0
    /\ m_networkItems = <<>>
    /\ netItem = NoReturn
    /\ nonVirtualDevice = FALSE
    /\ netRet = NoReturn

\* main() is not part of the run
MainIdle ==
    /\ mainPc = "start"
    /\ mainArgs = <<>>
    /\ editorCalls = <<>>

WGInit ==
    /\ wgPc = "new"
    /\ wgStored \in StoredConfigs
    /\ wgField = EmptyForm
    /\ wgFlag = InitialFlags
    /\ wgEdited = FALSE
    /\ wgRet = NoReturn

\* the constructor: loadConfig, then the five checks
WGConstructed(form) ==
    /\ wgPc' = "ready"
    /\ wgField' = form
    /\ wgFlag' = AllChecks(form)
    /\ UNCHANGED <<wgStored, wgEdited, wgRet>>
    /\ UNCHANGED <<brVars, netVars, mainVars>>

\* constructor, the stored endpoint splits into at least two parts
WGConstruct ==
    /\ wgPc = "new"
    /\ Len(EndpointList(wgStored)) >= 2
    /\ WGConstructed(LoadedForm(wgStored, EndpointList(wgStored)[2]))

\* constructor, endpointList has one element: endpointList[1] reads past its end
\* (QList::operator[] out of range); the read yields some text ...
WGConstructOutOfRange ==
    /\ wgPc = "new"
    /\ Len(EndpointList(wgStored)) < 2
    /\ \E g \in GarbageTexts : WGConstructed(LoadedForm(wgStored, g))

\* ... or the process stops there (assertion failure, invalid memory access)
WGConstructCrash ==
    /\ wgPc = "new"
    /\ Len(EndpointList(wgStored)) < 2
    /\ wgPc' = "crashed"
    /\ wgField' = PartlyLoadedForm(wgStored)
    /\ UNCHANGED <<wgStored, wgFlag, wgEdited, wgRet>>
    /\ UNCHANGED <<brVars, netVars, mainVars>>

\* the user changes a line edit: textChanged runs the connected check
WGEdit(field, text) ==
    /\ wgPc = "ready"
    /\ text # wgField[field]
    /\ wgField' = [wgField EXCEPT ![field] = text]
    /\ wgFlag' = SlotOf(field, wgFlag, wgField')
    /\ wgEdited' = TRUE
    /\ wgRet' = NoReturn
    /\ UNCHANGED <<wgPc, wgStored>>
    /\ UNCHANGED <<brVars, netVars, mainVars>>

WGIsValid ==
    /\ wgPc = "ready"
    /\ wgRet' = [op |-> "isValid", val |-> isValid(wgFlag)]
    /\ UNCHANGED <<wgPc, wgStored, wgField, wgFlag, wgEdited>>
    /\ UNCHANGED <<brVars, netVars, mainVars>>

WGSetting ==
    /\ wgPc = "ready"
    /\ wgRet' = [op |-> "setting", val |-> setting(wgStored, wgField)]
    /\ UNCHANGED <<wgPc, wgStored, wgField, wgFlag, wgEdited>>
    /\ UNCHANGED <<brVars, netVars, mainVars>>

WGNext ==
    \/ WGConstruct
    \/ WGConstructOutOfRange
    \/ WGConstructCrash
    \/ \E field \in DOMAIN TypedTexts : \E text \in TypedTexts[field] : WGEdit(field, text)
    \/ WGIsValid
    \/ WGSetting

InitWireGuard == WGInit /\ BrIdle /\ NetIdle /\ MainIdle

SpecWireGuard == InitWireGuard /\ [][WGNext]_vars

-----------------------------------------------------------------------------
(* Inputs of the bridge widget *)

\* connections that come to exist in a run: those NetworkManager knows at
\* the start and those addBridge makes
MaxConnections == 2

\* connections NetworkManager may know when the widget is made: a slave by
\* uuid, a slave by master name, a slave of another type, another master's slave
SampleConnections ==
    <<[uuid |-> "c1", name |-> "port1", connectionType |-> "802-3-ethernet",
       master |-> m_uuid, slaveType |-> "bridge", autoconnect |-> TRUE],
      [uuid |-> "c2", name |-> "port2", connectionType |-> "802-11-wireless",
       master |-> "br0", slaveType |-> "bridge", autoconnect |-> TRUE],
      [uuid |-> "c3", name |-> "port3", connectionType |-> "vlan",
       master |-> m_uuid, slaveType |-> "bond", autoconnect |-> TRUE],
      [uuid |-> "c4", name |-> "port4", connectionType |-> "802-3-ethernet",
       master |-> "uuid-other", slaveType |-> "bridge", autoconnect |-> TRUE]>>

RECURSIVE SubSeqs(_)
SubSeqs(seq) ==
    IF seq = <<>> THEN {<<>>}
    ELSE LET rest == SubSeqs(Tail(seq))
         IN  rest \cup {<<Head(seq)>> \o r : r \in rest}

InitialStores == {c \in SubSeqs(SampleConnections) : Len(c) <= MaxConnections}

MasterIds == {"", "br0"}

IfaceNames == {"", "br0"}

\* entries of the menu of btnAdd the user picks (the menu also offers VLAN)
AddMenu == {"802-3-ethernet", "802-11-wireless"}

\* names the user may give a connection in the editor dialog
EditedNames == {"renamed"}

DefaultBridgeSetting ==
    [present |-> TRUE, interfaceName |-> "br0", agingTime |-> 300, stp |-> TRUE,
     priority |-> 128, forwardDelay |-> 15, helloTime |-> 2, maxAge |-> 20]

\* bridge settings for the form: each property at and off its default
FormSettings ==
    [present : {TRUE}, interfaceName : IfaceNames, agingTime : {300, 0}, stp : BOOLEAN,
     priority : {128, 32768}, forwardDelay : {15, 4}, helloTime : {2, 1}, maxAge : {20, 6}]

\* values the user may put into the form
FormValues ==
    [ifaceName |-> IfaceNames, agingTime |-> {300, 0}, stp |-> BOOLEAN,
     priority |-> {128, 32768}, forwardDelay |-> {15, 4}, helloTime |-> {2, 1},
     maxAge |-> {20, 6}]

\* NetworkManager::ConnectionSettings::createNewUuid
createNewUuid(n) == "new" \o ToString(n)

-----------------------------------------------------------------------------
(* Operations of the bridge widget *)

BrInitCommon ==
    /\ brPc = "new"
    /\ brForm = UiDefaults
    /\ brBridges = <<>>
    /\ brCurrent = 0
    /\ brDialog = NoDialog
    /\ brWatchers = {}
    /\ brHooks = {}
    /\ brRet = NoReturn
    /\ brEdited = FALSE
    /\ nmUpdateCalls = {}
    /\ nmRemoveCalls = {}

\* the slave list is exercised: the form is given the default setting
BrInit ==
    /\ BrInitCommon
    /\ brSetting = DefaultBridgeSetting
    /\ brMasterId \in MasterIds
    /\ nmStore \in InitialStores
    /\ nmUuids = Len(nmStore)

\* the form is exercised: no setting or any bridge setting, no connections
BrFormInit ==
    /\ BrInitCommon
    /\ brSetting \in FormSettings \cup {NoSetting}
    /\ brMasterId = ""
    /\ nmStore = <<>>
    /\ nmUuids = 0

\* BridgeWidget::BridgeWidget: populateBridges(), then loadConfig(setting)
BrConstruct ==
    /\ brPc = "new"
    /\ brPc' = "ready"
    /\ brBridges' = populateBridges(brBridges, nmStore, brMasterId)
    /\ brCurrent' = 0
    /\ brForm' = IF brSetting.present THEN BridgeLoadedForm(brForm, brSetting) ELSE brForm
    /\ brRet' = [op |-> "populateBridges"]
    /\ UNCHANGED <<brSetting, brMasterId, brDialog, brWatchers, brHooks, brEdited,
                   nmStore, nmUpdateCalls, nmRemoveCalls, nmUuids>>
    /\ UNCHANGED <<wgVars, netVars, mainVars>>

\* the user changes a form field
BrEditForm(field, value) ==
    /\ brPc = "ready"
    /\ brDialog = NoDialog
    /\ brForm[field] # value
    /\ brForm' = [brForm EXCEPT ![field] = value]
    /\ brRet' = NoReturn
    /\ brEdited' = TRUE
    /\ UNCHANGED <<brPc, brSetting, brMasterId, brBridges, brCurrent, brDialog, brWatchers,
                   brHooks, nmStore, nmUpdateCalls, nmRemoveCalls, nmUuids>>
    /\ UNCHANGED <<wgVars, netVars, mainVars>>

\* the user makes a row of the slave list current (currentBridgeChanged)
BrSelect(row) ==
    /\ brPc = "ready"
    /\ brDialog = NoDialog
    /\ row \in 1..Len(brBridges)
    /\ row # brCurrent
    /\ brCurrent' = row
    /\ brRet' = NoReturn
    /\ UNCHANGED <<brPc, brSetting, brMasterId, brForm, brBridges, brDialog, brWatchers,
                   brHooks, brEdited, nmStore, nmUpdateCalls, nmRemoveCalls, nmUuids>>
    /\ UNCHANGED <<wgVars, netVars, mainVars>>

\* BridgeWidget::isValid
BrIsValid ==
    /\ brPc = "ready"
    /\ brRet' = [op |-> "isValid", val |-> BridgeIsValid(brForm, brBridges)]
    /\ UNCHANGED <<brPc, brSetting, brMasterId, brForm, brBridges, brCurrent, brDialog,
                   brWatchers, brHooks, brEdited, nmStore, nmUpdateCalls, nmRemoveCalls, nmUuids>>
    /\ UNCHANGED <<wgVars, netVars, mainVars>>

\* BridgeWidget::setting
BrSetting ==
    /\ brPc = "ready"
    /\ brRet' = [op |-> "setting", val |-> BridgeSettingOf(brForm)]
    /\ UNCHANGED <<brPc, brSetting, brMasterId, brForm, brBridges, brCurrent, brDialog,
                   brWatchers, brHooks, brEdited, nmStore, nmUpdateCalls, nmRemoveCalls, nmUuids>>
    /\ UNCHANGED <<wgVars, netVars, mainVars>>

\* BridgeWidget::addBridge: a new slave connection in a modal editor dialog
BrAddBridge(connectionType) ==
    /\ brPc = "ready"
    /\ brDialog = NoDialog
    /\ nmUuids < MaxConnections
    /\ nmUuids' = nmUuids + 1
    /\ brDialog' = [kind |-> "add",
                    settings |-> [uuid |-> createNewUuid(nmUuids + 1),
                                  name |-> "new",
                                  connectionType |-> connectionType,
                                  master |-> m_uuid,
                                  slaveType |-> type,
                                  autoconnect |-> FALSE]]
    /\ brRet' = NoReturn
    /\ UNCHANGED <<brPc, brSetting, brMasterId, brForm, brBridges, brCurrent, brWatchers,
                   brHooks, brEdited, nmStore, nmUpdateCalls, nmRemoveCalls>>
    /\ UNCHANGED <<wgVars, netVars, mainVars>>

\* addBridge, the dialog is accepted: addConnection is called and a watcher
\* made for its reply; finished then disposes of the dialog
BrAddAccepted ==
    /\ brDialog.kind = "add"
    /\ Outstanding = 0
    /\ brWatchers' = brWatchers \cup {[settings |-> brDialog.settings, reply |-> "pending"]}
    /\ brDialog' = NoDialog
    /\ brRet' = [op |-> "accepted"]
    /\ UNCHANGED <<brPc, brSetting, brMasterId, brForm, brBridges, brCurrent,
                   brHooks, brEdited, nmStore, nmUpdateCalls, nmRemoveCalls, nmUuids>>
    /\ UNCHANGED <<wgVars, netVars, mainVars>>

\* the rejected dialog as it would be if addBridge called addConnection on
\* finished instead of on accepted
BrDialogRejectedSubmits ==
    /\ brDialog.kind \in {"add", "edit"}
    /\ brDialog' = NoDialog
    /\ brRet' = [op |-> "rejected"]
    /\ brWatchers' = IF brDialog.kind = "add"
                     THEN brWatchers \cup {[settings |-> brDialog.settings, reply |-> "pending"]}
                     ELSE brWatchers
    /\ UNCHANGED <<brPc, brSetting, brMasterId, brForm, brBridges, brCurrent,
                   brHooks, brEdited, nmStore, nmUpdateCalls, nmRemoveCalls, nmUuids>>
    /\ UNCHANGED <<wgVars, netVars, mainVars>>

\* addBridge or editBridge, the dialog is rejected: finished disposes of it
BrDialogRejected ==
    /\ brDialog.kind \in {"add", "edit"}
    /\ brDialog' = NoDialog
    /\ brRet' = [op |-> "rejected"]
    /\ UNCHANGED <<brPc, brSetting, brMasterId, brForm, brBridges, brCurrent, brWatchers,
                   brHooks, brEdited, nmStore, nmUpdateCalls, nmRemoveCalls, nmUuids>>
    /\ UNCHANGED <<wgVars, netVars, mainVars>>

\* NetworkManager answers an addConnection call: the connection is added and
\* its path returned, or an error is returned
NMAddConnection(w, ok) ==
    /\ w \in brWatchers
    /\ w.reply = "pending"
    /\ brWatchers' = (brWatchers \ {w}) \cup {[w EXCEPT !.reply = IF ok THEN "valid" ELSE "error"]}
    /\ nmStore' = IF ok THEN Append(nmStore, w.settings) ELSE nmStore
    /\ brRet' = NoReturn
    /\ UNCHANGED <<brPc, brSetting, brMasterId, brForm, brBridges, brCurrent, brDialog,
                   brHooks, brEdited, nmUpdateCalls, nmRemoveCalls, nmUuids>>
    /\ UNCHANGED <<wgVars, netVars, mainVars>>

\* bridgeAddComplete: whether slotWidgetChanged() is called, which is in the
\* branch that appends
bridgeAddCompleteEmits(w, connections) ==
    LET i == findConnectionByUuid(connections, w.settings.uuid)
    IN  w.reply = "valid" /\ i # 0 /\ connections[i].master = m_uuid

\* bridgeAddComplete as it would be without the comparison of the master
bridgeAddCompleteAnyMaster(w, connections, list) ==
    LET i == findConnectionByUuid(connections, w.settings.uuid)
    IN  IF w.reply = "valid" /\ i # 0
        THEN Append(list, SlaveItem(connections[i]))
        ELSE list

\* bridgeAddComplete: the slave list after the watcher of call w has finished
bridgeAddComplete(w, connections, list) ==
    LET i == findConnectionByUuid(connections, w.settings.uuid)
    IN  IF w.reply = "valid" /\ i # 0 /\ connections[i].master = m_uuid
        THEN Append(list, SlaveItem(connections[i]))
        ELSE list

\* BridgeWidget::bridgeAddComplete, run when a watcher finishes
BrBridgeAddComplete(w) ==
    /\ w \in brWatchers
    /\ w.reply # "pending"
    /\ brBridges' = bridgeAddComplete(w, nmStore, brBridges)
    /\ brWatchers' = brWatchers \ {w}
    /\ brRet' = [op |-> "bridgeAddComplete", watcher |-> w, before |-> brBridges,
                 slotWidgetChanged |-> bridgeAddCompleteEmits(w, nmStore)]
    /\ UNCHANGED <<brPc, brSetting, brMasterId, brForm, brCurrent, brDialog,
                   brHooks, brEdited, nmStore, nmUpdateCalls, nmRemoveCalls, nmUuids>>
    /\ UNCHANGED <<wgVars, netVars, mainVars>>

\* BridgeWidget::editBridge: the current item's connection in a modal editor
\* dialog; nothing without a current item or when the connection is not found
BrEditBridge ==
    /\ brPc = "ready"
    /\ brDialog = NoDialog
    /\ brDialog' = IF /\ brCurrent # 0
                      /\ findConnectionByUuid(nmStore, brBridges[brCurrent].uuid) # 0
                   THEN [kind |-> "edit", uuid |-> brBridges[brCurrent].uuid]
                   ELSE NoDialog
    /\ brRet' = NoReturn
    /\ UNCHANGED <<brPc, brSetting, brMasterId, brForm, brBridges, brCurrent, brWatchers,
                   brHooks, brEdited, nmStore, nmUpdateCalls, nmRemoveCalls, nmUuids>>
    /\ UNCHANGED <<wgVars, netVars, mainVars>>

\* editBridge, the dialog is accepted: Connection::update is called and the
\* connection's updated signal connected to populateBridges
BrEditAccepted(name) ==
    /\ brDialog.kind = "edit"
    /\ Outstanding = 0
    /\ nmUpdateCalls' = nmUpdateCalls \cup {[uuid |-> brDialog.uuid, name |-> name]}
    /\ brHooks' = brHooks \cup {brDialog.uuid}
    /\ brDialog' = NoDialog
    /\ brRet' = NoReturn
    /\ UNCHANGED <<brPc, brSetting, brMasterId, brForm, brBridges, brCurrent, brWatchers,
                   brEdited, nmStore, nmRemoveCalls, nmUuids>>
    /\ UNCHANGED <<wgVars, netVars, mainVars>>

\* NetworkManager carries out an update and the connection emits updated:
\* populateBridges runs where it is connected (clear() leaves no current item)
NMConnectionUpdated(call) ==
    /\ call \in nmUpdateCalls
    /\ nmUpdateCalls' = nmUpdateCalls \ {call}
    /\ LET i == findConnectionByUuid(nmStore, call.uuid)
       IN  /\ nmStore' = IF i = 0 THEN nmStore ELSE [nmStore EXCEPT ![i].name = call.name]
           /\ IF i # 0 /\ call.uuid \in brHooks
              THEN /\ brBridges' = populateBridges(brBridges, nmStore', brMasterId)
                   /\ brCurrent' = 0
                   /\ brRet' = [op |-> "populateBridges"]
              ELSE /\ UNCHANGED <<brBridges, brCurrent>>
                   /\ brRet' = NoReturn
    /\ UNCHANGED <<brPc, brSetting, brMasterId, brForm, brDialog, brWatchers,
                   brHooks, brEdited, nmRemoveCalls, nmUuids>>
    /\ UNCHANGED <<wgVars, netVars, mainVars>>

\* BridgeWidget::deleteBridge: nothing without a current item or when the
\* connection is not found; else the user is asked, and on Yes
\* Connection::remove is called and the current item deleted
BrDeleteBridge(answerYes) ==
    /\ brPc = "ready"
    /\ brDialog = NoDialog
    /\ answerYes => Outstanding = 0
    /\ IF /\ brCurrent # 0
          /\ findConnectionByUuid(nmStore, brBridges[brCurrent].uuid) # 0
          /\ answerYes
       THEN /\ nmRemoveCalls' = nmRemoveCalls \cup {brBridges[brCurrent].uuid}
            /\ brBridges' = RemoveAt(brBridges, brCurrent)
            /\ brCurrent' = CurrentAfterDelete(brBridges, brCurrent)
       ELSE UNCHANGED <<nmRemoveCalls, brBridges, brCurrent>>
    /\ brRet' = NoReturn
    /\ UNCHANGED <<brPc, brSetting, brMasterId, brForm, brDialog, brWatchers,
                   brHooks, brEdited, nmStore, nmUpdateCalls, nmUuids>>
    /\ UNCHANGED <<wgVars, netVars, mainVars>>

\* NetworkManager carries out a remove
NMConnectionRemoved(uuid) ==
    /\ uuid \in nmRemoveCalls
    /\ nmRemoveCalls' = nmRemoveCalls \ {uuid}
    /\ LET i == findConnectionByUuid(nmStore, uuid)
       IN  nmStore' = IF i = 0 THEN nmStore ELSE RemoveAt(nmStore, i)
    /\ brRet' = NoReturn
    /\ UNCHANGED <<brPc, brSetting, brMasterId, brForm, brBridges, brCurrent, brDialog,
                   brWatchers, brHooks, brEdited, nmUpdateCalls, nmUuids>>
    /\ UNCHANGED <<wgVars, netVars, mainVars>>

\* another client of NetworkManager removes a connection or gives it another
\* master, between an addConnection call and the widget's handling of its reply
NMOtherClient(uuid, change) ==
    /\ brPc = "ready"
    /\ LET i == findConnectionByUuid(nmStore, uuid)
       IN  /\ i # 0
           /\ nmStore' = IF change = "remove" THEN RemoveAt(nmStore, i)
                         ELSE [nmStore EXCEPT ![i].master = "uuid-other"]
           /\ nmStore' # nmStore
    /\ brRet' = NoReturn
    /\ UNCHANGED <<brPc, brSetting, brMasterId, brForm, brBridges, brCurrent, brDialog,
                   brWatchers, brHooks, brEdited, nmUpdateCalls, nmRemoveCalls, nmUuids>>
    /\ UNCHANGED <<wgVars, netVars, mainVars>>

BrNext ==
    \/ BrConstruct
    \/ \E name \in IfaceNames : BrEditForm("ifaceName", name)
    \/ \E row \in 1..Len(brBridges) : BrSelect(row)
    \/ BrIsValid
    \/ \E connectionType \in AddMenu : BrAddBridge(connectionType)
    \/ BrAddAccepted
    \/ BrDialogRejected
    \/ \E w \in brWatchers : \E ok \in BOOLEAN : NMAddConnection(w, ok)
    \/ \E w \in brWatchers : BrBridgeAddComplete(w)
    \/ BrEditBridge
    \/ \E name \in EditedNames : BrEditAccepted(name)
    \/ \E call \in nmUpdateCalls : NMConnectionUpdated(call)
    \/ \E answerYes \in BOOLEAN : BrDeleteBridge(answerYes)
    \/ \E uuid \in nmRemoveCalls : NMConnectionRemoved(uuid)

InitBridge == BrInit /\ WGIdle /\ NetIdle /\ MainIdle

SpecBridge == InitBridge /\ [][BrNext]_vars

\* adding slaves, with NetworkManager shared with other clients
BrAddNext ==
    \/ BrConstruct
    \/ \E connectionType \in AddMenu : BrAddBridge(connectionType)
    \/ BrAddAccepted
    \/ BrDialogRejected
    \/ \E w \in brWatchers : \E ok \in BOOLEAN : NMAddConnection(w, ok)
    \/ \E w \in brWatchers : BrBridgeAddComplete(w)
    \/ \E w \in brWatchers : \E change \in {"remove", "setMaster"} :
          NMOtherClient(w.settings.uuid, change)

SpecBridgeAdd == InitBridge /\ [][BrAddNext]_vars

BrFormNext ==
    \/ BrConstruct
    \/ \E field \in DOMAIN FormValues : \E value \in FormValues[field] : BrEditForm(field, value)
    \/ BrSetting

InitBridgeForm == BrFormInit /\ WGIdle /\ NetIdle /\ MainIdle

SpecBridgeForm == InitBridgeForm /\ [][BrFormNext]_vars

-----------------------------------------------------------------------------
(* NetworkModel *)

MaxDevices == 3

\* NetworkManager::Device::Type: the three the model shows, and two it does not
DeviceTypes == {"Ethernet", "Modem", "Wifi", "Bluetooth", "Bridge"}

\* device->uni() of the device at position i
uni(i) == <<"/org/freedesktop/NetworkManager/Devices", i>>

\* the null item pointer
NullItem == [type |-> "null", path |-> <<>>]

\* new NetworkModelItem(type, path)
NetworkModelItem(itemType, path) == [type |-> itemType, path |-> path]

\* the constructor's foreach body as it would be without the reset of
\* nonVirtualDevice and item after a push_back
LoopBodyNoReset(deviceType, i, items, item, flag) ==
    LET hit == deviceType \in {"Ethernet", "Modem", "Wifi"}
        item1 == IF hit THEN NetworkModelItem(deviceType, uni(i)) ELSE item
        flag1 == hit \/ flag
    IN  IF flag1
        THEN [items |-> Append(items, item1), item |-> NullItem, flag |-> flag1]
        ELSE [items |-> items, item |-> item1, flag |-> flag1]

\* NetworkModel::NetworkModel: one pass of the foreach body for the device at
\* position i: the new items, item and nonVirtualDevice
LoopBody(deviceType, i, items, item, flag) ==
    LET hit == deviceType \in {"Ethernet", "Modem", "Wifi"}
        item1 == IF hit THEN NetworkModelItem(deviceType, uni(i)) ELSE item
        flag1 == hit \/ flag
    IN  IF flag1
        THEN [items |-> Append(items, item1), item |-> NullItem, flag |-> FALSE]
        ELSE [items |-> items, item |-> item1, flag |-> flag1]

RECURSIVE DeviceLists(_)
DeviceLists(n) ==
    IF n = 0 THEN {<<>>}
    ELSE LET shorter == DeviceLists(n - 1)
         IN  shorter \cup {Append(d, t) : d \in {x \in shorter : Len(x) = n - 1}, t \in DeviceTypes}

\* roles of NetworkModel::data, and a role it does not know
Roles == {"TypeRole", "NameRole", "IconRole", "PathRole", "OtherRole"}

\* NetworkModel::data
data(items, row, role) ==
    IF row >= 0 /\ row < Len(items) /\ role # "OtherRole"
    THEN [role |-> role, of |-> items[row + 1]]
    ELSE [role |-> "QVariant()"]

NetInit ==
    /\ netPc = "loop"
    /\ netDevices \in DeviceLists(MaxDevices)
    /\ netIdx = 1
    /\ m_networkItems = <<>>
    /\ netItem = NullItem
    /\ nonVirtualDevice = FALSE
    /\ netRet = NoReturn

\* constructor: the foreach body for the next device
NetLoopStep ==
    /\ netPc = "loop"
    /\ netIdx <= Len(netDevices)
    /\ LET r == LoopBody(netDevices[netIdx], netIdx, m_networkItems, netItem, nonVirtualDevice)
       IN  /\ m_networkItems' = r.items
           /\ netItem' = r.item
           /\ nonVirtualDevice' = r.flag
    /\ netIdx' = netIdx + 1
    /\ UNCHANGED <<netPc, netDevices, netRet>>
    /\ UNCHANGED <<wgVars, brVars, mainVars>>

\* constructor: the VPN item is inserted at the end
NetInsertVpn ==
    /\ netPc = "loop"
    /\ netIdx > Len(netDevices)
    /\ netItem' = NetworkModelItem("Vpn", <<>>)
    /\ m_networkItems' = Append(m_networkItems, netItem')
    /\ netPc' = "done"
    /\ UNCHANGED <<netDevices, netIdx, nonVirtualDevice, netRet>>
    /\ UNCHANGED <<wgVars, brVars, mainVars>>

\* NetworkModel::count
NetCount ==
    /\ netPc = "done"
    /\ netRet' = [op |-> "count", val |-> Len(m_networkItems)]
    /\ UNCHANGED <<netPc, netDevices, netIdx, m_networkItems, netItem, nonVirtualDevice>>
    /\ UNCHANGED <<wgVars, brVars, mainVars>>

\* NetworkModel::rowCount
NetRowCount ==
    /\ netPc = "done"
    /\ netRet' = [op |-> "rowCount", val |-> Len(m_networkItems)]
    /\ UNCHANGED <<netPc, netDevices, netIdx, m_networkItems, netItem, nonVirtualDevice>>
    /\ UNCHANGED <<wgVars, brVars, mainVars>>

\* NetworkModel::data
NetData(row, role) ==
    /\ netPc = "done"
    /\ netRet' = [op |-> "data", row |-> row, val |-> data(m_networkItems, row, role)]
    /\ UNCHANGED <<netPc, netDevices, netIdx, m_networkItems, netItem, nonVirtualDevice>>
    /\ UNCHANGED <<wgVars, brVars, mainVars>>

NetNext ==
    \/ NetLoopStep
    \/ NetInsertVpn
    \/ NetCount
    \/ NetRowCount
    \/ \E row \in -1..(Len(m_networkItems)) : \E role \in Roles : NetData(row, role)

InitNetwork == NetInit /\ WGIdle /\ BrIdle /\ MainIdle

SpecNetwork == InitNetwork /\ [][NetNext]_vars

-----------------------------------------------------------------------------
(* main() of the connection editor *)

\* most positional arguments on the command line
MaxArgs == 3

\* texts given as positional arguments
ArgTexts == {"uuid-1", "uuid-2", "not-a-uuid"}

RECURSIVE ArgLists(_)
\* the command lines with up to n positional arguments
ArgLists(n) ==
    IF n = 0 THEN {<<>>}
    ELSE ArgLists(n - 1) \cup {Append(l, a) : l \in {x \in ArgLists(n - 1) : Len(x) = n - 1}, a \in ArgTexts}

\* main() as it would be with show() after the if, not in its else branch
OpenEditorShowAlways(args) ==
    IF Len(args) # 0
    THEN <<[op |-> "editConnection", arg |-> args[1]], [op |-> "show"]>>
    ELSE <<[op |-> "show"]>>

\* main(): if (args->count()) editor->editConnection(args->arg(0)); else editor->show();
OpenEditor(args) ==
    IF Len(args) # 0
    THEN <<[op |-> "editConnection", arg |-> args[1]]>>
    ELSE <<[op |-> "show"]>>

\* KCmdLineArgs::init .. addCmdLineOptions: the command line is taken in
MainInit ==
    /\ mainPc = "start"
    /\ mainArgs \in ArgLists(MaxArgs)
    /\ editorCalls = <<>>

\* KApplication app; new ConnectionEditor()
MainNewEditor ==
    /\ mainPc = "start"
    /\ mainPc' = "editor"
    /\ UNCHANGED <<mainArgs, editorCalls>>
    /\ UNCHANGED <<wgVars, brVars, netVars>>

\* parsedArgs() and the if/else on args->count()
MainOpenEditor ==
    /\ mainPc = "editor"
    /\ editorCalls' = editorCalls \o OpenEditor(mainArgs)
    /\ mainPc' = "opened"
    /\ UNCHANGED mainArgs
    /\ UNCHANGED <<wgVars, brVars, netVars>>

\* return app.exec(): the event loop is entered
MainExec ==
    /\ mainPc = "opened"
    /\ mainPc' = "exec"
    /\ UNCHANGED <<mainArgs, editorCalls>>
    /\ UNCHANGED <<wgVars, brVars, netVars>>

MainNext ==
    \/ MainNewEditor
    \/ MainOpenEditor
    \/ MainExec

InitMain == MainInit /\ WGIdle /\ BrIdle /\ NetIdle

SpecMain == InitMain /\ [][MainNext]_vars

-----------------------------------------------------------------------------
(* Properties of the WireGuard widget *)

\* C1: loadConfig of a stored configuration without an endpoint key completes
\* normally and leaves the endpoint address and port fields empty, so that the
\* endpoint is reported valid.
C1_NoEndpointLoadsBlank ==
    (wgPc # "new" /\ NM_WG_KEY_ENDPOINT \notin DOMAIN wgStored /\ ~wgEdited) =>
        /\ wgPc = "ready"
        /\ wgField.endpointAddress = Empty
        /\ wgField.endpointPort = Empty
        /\ wgFlag.endpointValid

\* the address rule in words: some address field is filled in, and every
\* filled in address field holds an address with CIDR suffix
AddressRule(f) ==
    /\ f.addressIPv4 # Empty \/ f.addressIPv6 # Empty
    /\ f.addressIPv4 # Empty => Ip4CidrAcceptable(f.addressIPv4)
    /\ f.addressIPv6 # Empty => Ip6CidrAcceptable(f.addressIPv6)

\* the endpoint rule in words: blank, or an acceptable address with a port
EndpointRule(f) ==
    \/ f.endpointAddress = Empty /\ f.endpointPort = Empty
    \/ /\ \/ FqdnAcceptable(f.endpointAddress)
          \/ Ip4Acceptable(f.endpointAddress)
          \/ Ip6Acceptable(f.endpointAddress)
       /\ f.endpointPort # Empty

\* C2: isValid() returns true exactly when the address, the private key, the
\* public key and the allowed IPs are acceptable and the endpoint is valid.
C2_IsValidIffAllFive ==
    wgRet.op = "isValid" =>
        wgRet.val = (/\ AddressRule(wgField)
                     /\ KeyAcceptable(wgField.privateKey)
                     /\ KeyAcceptable(wgField.publicKey)
                     /\ IpListAcceptable(wgField.allowedIPs)
                     /\ EndpointRule(wgField))

\* C2 witness: isValid() answered false with the public key alone unacceptable
C2_Witness ==
    /\ wgRet.op = "isValid"
    /\ wgRet.val = FALSE
    /\ wgEdited
    /\ AddressRule(wgField)
    /\ KeyAcceptable(wgField.privateKey)
    /\ ~KeyAcceptable(wgField.publicKey)
    /\ IpListAcceptable(wgField.allowedIPs)
    /\ EndpointRule(wgField)
    /\ wgField.endpointAddress # Empty

\* C3: the address flag holds exactly when at least one address field is
\* non-empty and every non-empty address field is acceptable with CIDR suffix.
C3_AddressValidRule ==
    wgPc = "ready" => (wgFlag.addressValid <=> AddressRule(wgField))

\* C3 witness: an acceptable IPv4 address beside a non-empty unacceptable IPv6
\* address, after the edit that ran checkAddressValid; the flag is down
C3_Witness ==
    /\ wgPc = "ready"
    /\ wgEdited
    /\ Ip4CidrAcceptable(wgField.addressIPv4)
    /\ wgField.addressIPv6 # Empty
    /\ ~Ip6CidrAcceptable(wgField.addressIPv6)
    /\ ~wgFlag.addressValid

\* C4: the endpoint flag holds exactly when address and port are both empty, or
\* the address is an FQDN, IPv4 or IPv6 address and the port is non-empty; an
\* address without a port and a port without an address are invalid.
C4_EndpointValidRule ==
    wgPc = "ready" =>
        /\ wgFlag.endpointValid <=> EndpointRule(wgField)
        /\ (wgField.endpointAddress # Empty /\ wgField.endpointPort = Empty)
              => ~wgFlag.endpointValid
        /\ (wgField.endpointAddress = Empty /\ wgField.endpointPort # Empty)
              => ~wgFlag.endpointValid

\* C4 witness: an acceptable address whose port has been cleared
C4_Witness ==
    /\ wgPc = "ready"
    /\ wgEdited
    /\ Ip6Acceptable(wgField.endpointAddress)
    /\ wgField.endpointPort = Empty
    /\ ~wgFlag.endpointValid

\* s without its leading and trailing whitespace: from its first to its last
\* character that is no whitespace
Stripped(s) ==
    LET solid == {k \in 1..Len(s) : ~IsSpace(s[k])}
    IN  IF solid = {} THEN <<>>
        ELSE SubSeq(s, CHOOSE k \in solid : \A m \in solid : k <= m,
                       CHOOSE k \in solid : \A m \in solid : k >= m)

\* C5: setting() stores a non-empty endpoint as <address>:<port> when the
\* address has no ':' and as [<address>]:<port> when it has, both trimmed.
C5_EndpointFormat ==
    (wgRet.op = "setting" /\ wgField.endpointAddress # Empty) =>
        LET a == Stripped(wgField.endpointAddress)
            p == Stripped(wgField.endpointPort)
        IN  /\ NM_WG_KEY_ENDPOINT \in DOMAIN wgRet.val
            /\ wgRet.val[NM_WG_KEY_ENDPOINT] =
                  IF \E k \in 1..Len(wgField.endpointAddress) : wgField.endpointAddress[k] = ":"
                  THEN <<"[">> \o a \o <<"]", ":">> \o p
                  ELSE a \o <<":">> \o p

\* C5 witness: an IPv6 address typed with surrounding blanks is stored in
\* brackets, trimmed
C5_Witness ==
    /\ wgRet.op = "setting"
    /\ wgField.endpointAddress = Chars(" 2001:db8::1 ")
    /\ wgField.endpointPort = PortText
    /\ wgRet.val[NM_WG_KEY_ENDPOINT] = Chars("[2001:db8::1]:51820")

\* C6: for a stored endpoint <ipv4>:<port>, <fqdn>:<port> or [<ipv6>]:<port>,
\* loadConfig then setting() with no edit in between gives the same endpoint
\* text; the address field shows the address without brackets, the port field
\* the port.
C6_EndpointRoundTrip ==
    \A e \in WellFormedEndpoints :
        (wgRet.op = "setting" /\ ~wgEdited /\ Lookup(wgStored, NM_WG_KEY_ENDPOINT) = e.text) =>
            /\ Lookup(wgRet.val, NM_WG_KEY_ENDPOINT) = e.text
            /\ wgField.endpointAddress = e.address
            /\ wgField.endpointPort = e.port

\* C6 witness: the bracketed IPv6 endpoint has gone through loadConfig and setting()
C6_Witness ==
    /\ wgRet.op = "setting"
    /\ ~wgEdited
    /\ Lookup(wgStored, NM_WG_KEY_ENDPOINT) = Chars("[2001:db8::1]:51820")
    /\ wgField.endpointAddress = Chars("2001:db8::1")
    /\ Lookup(wgRet.val, NM_WG_KEY_ENDPOINT) = Chars("[2001:db8::1]:51820")

-----------------------------------------------------------------------------
(* Properties of the bridge widget *)

\* C7: isValid() returns true exactly when the interface name is non-empty and
\* the slave list has an entry; whatever add, edit, delete and repopulate
\* operations emptied the list, the widget is then invalid.
C7_BridgeValidIff ==
    brRet.op = "isValid" =>
        /\ brRet.val <=> (brForm.ifaceName # "" /\ Len(brBridges) >= 1)
        /\ brBridges = <<>> => ~brRet.val

\* C7 witness: a named bridge whose only slave has been deleted answers invalid
C7_Witness ==
    /\ brRet.op = "isValid"
    /\ brRet.val = FALSE
    /\ brForm.ifaceName # ""
    /\ brBridges = <<>>
    /\ nmRemoveCalls # {}

\* a connection is a slave of this widget's master, of the widget's type
IsOurSlave(connection) ==
    /\ connection.slaveType = type
    /\ \/ connection.master = m_uuid
       \/ brMasterId # "" /\ connection.master = brMasterId

\* C8: after populateBridges the slave list has exactly one entry for each known
\* connection of the widget's slave type whose master is the widget's uuid, or
\* its name when that is non-empty, and no other entry; running it again on
\* the same connections gives the same list.
C8_PopulateExact ==
    brRet.op = "populateBridges" =>
        /\ \A i \in 1..Len(nmStore) :
              IsOurSlave(nmStore[i]) =>
                  Cardinality({k \in 1..Len(brBridges) : brBridges[k].uuid = nmStore[i].uuid}) = 1
        /\ \A k \in 1..Len(brBridges) :
              \E i \in 1..Len(nmStore) :
                  /\ IsOurSlave(nmStore[i])
                  /\ brBridges[k].uuid = nmStore[i].uuid
                  /\ brBridges[k].label = <<nmStore[i].name, nmStore[i].connectionType>>
        /\ populateBridges(brBridges, nmStore, brMasterId) = brBridges

\* C8 witness: populateBridges, run again by an updated signal, lists a slave
\* matched by master name and leaves out a connection that is not a slave
C8_Witness ==
    /\ brRet.op = "populateBridges"
    /\ brHooks # {}
    /\ \E k \in 1..Len(brBridges) : \E i \in 1..Len(nmStore) :
          /\ brBridges[k].uuid = nmStore[i].uuid
          /\ nmStore[i].master = brMasterId
          /\ nmStore[i].name \in EditedNames
    /\ \E i \in 1..Len(nmStore) : ~IsOurSlave(nmStore[i])

StpProperties == {"priority", "forwardDelay", "helloTime", "maxAge"}

\* C10: loadConfig of a bridge setting then setting(), with no edit between,
\* gives the same interface name, aging time and STP flag and, with STP
\* enabled, the same four STP parameters; with STP disabled these four are
\* neither put into the form nor written to the output.
C10_BridgeRoundTrip ==
    (brRet.op = "setting" /\ ~brEdited /\ brSetting.present) =>
        /\ brRet.val.interfaceName = brSetting.interfaceName
        /\ brRet.val.agingTime = brSetting.agingTime
        /\ brRet.val.stp = brSetting.stp
        /\ brSetting.stp =>
              /\ StpProperties \subseteq DOMAIN brRet.val
              /\ \A k \in StpProperties : brRet.val[k] = brSetting[k]
        /\ ~brSetting.stp =>
              /\ StpProperties \cap DOMAIN brRet.val = {}
              /\ \A k \in StpProperties : brForm[k] = UiDefaults[k]

\* C10 witness: a setting with STP enabled and every property off its default
\* has gone through loadConfig and setting()
C10_Witness ==
    /\ brRet.op = "setting"
    /\ ~brEdited
    /\ brSetting.present
    /\ brSetting.stp
    /\ brSetting.agingTime # UiDefaults.agingTime
    /\ \A k \in StpProperties : brSetting[k] # UiDefaults[k]
    /\ \A k \in StpProperties : brRet.val[k] = brSetting[k]

-----------------------------------------------------------------------------
(* Properties of the network model *)

\* positions of the devices that get an item
Physical == {i \in 1..Len(netDevices) : netDevices[i] \in {"Ethernet", "Modem", "Wifi"}}

\* the k-th of them in enumeration order
PhysicalAt(k) == CHOOSE i \in Physical : Cardinality({j \in Physical : j < i}) = k - 1

\* C9: once NetworkModel is constructed its item list holds one item per
\* Ethernet, Modem or Wifi device in enumeration order, then one Vpn item in
\* the last position; count() and rowCount() give its length; no operation
\* changes it.
C9_StaticItemList ==
    netPc = "done" =>
        /\ Len(m_networkItems) = Cardinality(Physical) + 1
        /\ \A k \in 1..Cardinality(Physical) :
              /\ m_networkItems[k].type = netDevices[PhysicalAt(k)]
              /\ m_networkItems[k].path = uni(PhysicalAt(k))
        /\ m_networkItems[Len(m_networkItems)].type = "Vpn"
        /\ \A k \in 1..(Len(m_networkItems) - 1) : m_networkItems[k].type # "Vpn"
        /\ netRet.op \in {"count", "rowCount"} => netRet.val = Cardinality(Physical) + 1

\* C9 witness: a device without an item between two with: count() is 3
C9_Witness ==
    /\ netPc = "done"
    /\ netDevices = <<"Ethernet", "Bridge", "Wifi">>
    /\ netRet.op = "count"
    /\ netRet.val = 3
    /\ m_networkItems[2].type = "Wifi"

-----------------------------------------------------------------------------
(* Properties of main() *)

\* C11: before the event loop is entered main() does exactly one of two things:
\* with at least one positional argument it calls editConnection with the
\* first argument and never show; with none it calls show and never
\* editConnection.  Before that it has called neither.
C11_ExactlyOneOpening ==
    /\ mainPc \in {"start", "editor"} => editorCalls = <<>>
    /\ mainPc \in {"opened", "exec"} =>
          /\ Len(editorCalls) = 1
          /\ Len(mainArgs) >= 1 =>
                /\ editorCalls[1].op = "editConnection"
                /\ editorCalls[1].arg = mainArgs[1]
                /\ \A k \in 1..Len(editorCalls) : editorCalls[k].op # "show"
          /\ Len(mainArgs) = 0 =>
                /\ editorCalls[1].op = "show"
                /\ \A k \in 1..Len(editorCalls) : editorCalls[k].op # "editConnection"

\* C11 witness: two different arguments given; the event loop is entered with
\* editConnection called on the first and nothing else
C11_Witness ==
    /\ mainPc = "exec"
    /\ Len(mainArgs) >= 2
    /\ mainArgs[1] # mainArgs[2]
    /\ Len(editorCalls) = 1
    /\ editorCalls[1].op = "editConnection"
    /\ editorCalls[1].arg = mainArgs[1]

-----------------------------------------------------------------------------
(* Properties of adding a slave *)

\* C12: bridgeAddComplete appends to the slave list only when the reply is
\* valid, the returned connection is known and its master is the widget's
\* uuid; with an error reply, an unknown connection or another master the list
\* is unchanged and slotWidgetChanged is not emitted; one call appends at most
\* one entry.
C12_AddCompleteAppendsOnlyOwnSlave ==
    brRet.op = "bridgeAddComplete" =>
        LET w == brRet.watcher
            found == {i \in 1..Len(nmStore) : nmStore[i].uuid = w.settings.uuid}
            ours == /\ w.reply = "valid"
                    /\ \E i \in found : nmStore[i].master = m_uuid
        IN  /\ brBridges # brRet.before => ours
            /\ ~ours => (brBridges = brRet.before /\ ~brRet.slotWidgetChanged)
            /\ Len(brBridges) <= Len(brRet.before) + 1
            /\ SubSeq(brBridges, 1, Len(brRet.before)) = brRet.before
            /\ Len(brBridges) = Len(brRet.before) + 1 =>
                  brBridges[Len(brBridges)].uuid = w.settings.uuid

\* C12 witness: the reply is valid and the connection known, but it has been
\* given another master: nothing is appended and nothing emitted
C12_Witness ==
    /\ brRet.op = "bridgeAddComplete"
    /\ brRet.watcher.reply = "valid"
    /\ \E i \in 1..Len(nmStore) :
          /\ nmStore[i].uuid = brRet.watcher.settings.uuid
          /\ nmStore[i].master # m_uuid
    /\ brBridges = brRet.before
    /\ ~brRet.slotWidgetChanged

\* addConnection calls made by a step: the watchers still waiting for their
\* reply that the step has made
Submitted == {w \in brWatchers' : w.reply = "pending"} \ brWatchers

\* uuids that are in use: of the known connections and of the calls under way
UsedUuids ==
    {nmStore[i].uuid : i \in 1..Len(nmStore)} \cup {w.settings.uuid : w \in brWatchers}

\* C13: addBridge makes the new slave connection with a fresh uuid, the
\* widget's uuid as master, the widget's type as slave type and autoconnect
\* off; it is submitted to NetworkManager, with one watcher for the reply, only
\* when the dialog is accepted; a dialog that finishes without being accepted
\* submits nothing and leaves the slave list as it was.
C13_SubmitOnlyWhenAccepted ==
    [][ /\ (brDialog.kind # "add" /\ brDialog'.kind = "add") =>
              /\ brDialog'.settings.uuid \notin UsedUuids
              /\ brDialog'.settings.master = m_uuid
              /\ brDialog'.settings.slaveType = type
              /\ brDialog'.settings.autoconnect = FALSE
              /\ Submitted = {}
              /\ brBridges' = brBridges
        /\ Submitted # {} =>
              /\ brDialog.kind = "add"
              /\ brRet'.op = "accepted"
              /\ Submitted = {[settings |-> brDialog.settings, reply |-> "pending"]}
        /\ (brDialog.kind = "add" /\ brRet'.op = "accepted") =>
              /\ Cardinality(Submitted) = 1
              /\ brWatchers \subseteq brWatchers'
        /\ (brDialog.kind = "add" /\ brRet'.op = "rejected") =>
              /\ brWatchers' = brWatchers
              /\ nmStore' = nmStore
              /\ brBridges' = brBridges
      ]_vars

\* C13 witness: a second dialog has been accepted, after a first add that
\* NetworkManager carried out: its connection is submitted with uuid, master,
\* slave type and autoconnect as addBridge made them
C13_Witness ==
    /\ brRet.op = "accepted"
    /\ brDialog = NoDialog
    /\ \E w \in brWatchers :
          /\ w.reply = "pending"
          /\ w.settings.uuid \notin {nmStore[i].uuid : i \in 1..Len(nmStore)}
          /\ w.settings.master = m_uuid
          /\ w.settings.slaveType = type
          /\ w.settings.autoconnect = FALSE
          /\ \E i \in 1..Len(nmStore) : nmStore[i].uuid = createNewUuid(1)

====
